---- MODULE Spec2Model ----
(***************************************************************************)
(* Model of the CloudFormation deployment scripts                          *)
(*   src/deploy-ocid-provider-stack.py                                     *)
(*   src/deploy-dnanexus-stack.py                                          *)
(*   src/create_oidc_provider.py                                           *)
(*                                                                         *)
(* Spec        : deploy_cloudformation_stack of the two deploy-*-stack     *)
(*               scripts (identical code), running against a provider      *)
(*               whose stack moves through its lifecycle on its own.  The  *)
(*               provider puts a stack in its IN_PROGRESS status before    *)
(*               create_stack or update_stack returns.                     *)
(* ReplaceSpec : one call of replace_policy_placeholders on a bounded set   *)
(*               of policies and data.                                     *)
(* MainSpec    : one run of main of any of the three scripts, from the     *)
(*               parsed arguments to the exit or the raised error, with    *)
(*               the deployment it starts.                                 *)
(***************************************************************************)
EXTENDS Integers, Sequences, FiniteSets, TLC

(***************************************************************************)
(* Bounds                                                                  *)
(***************************************************************************)
\* the clock runs from 0 to MaxTime
MaxTime == 3
\* at most MaxPolls describe_stacks calls are explored in one invocation
MaxPolls == 3

(***************************************************************************)
(* Stack statuses.  A status is the sequence of the words that '_' joins,  *)
(* so that str.endswith('_COMPLETE') is a test on the last word.           *)
(***************************************************************************)
CREATE_IN_PROGRESS == <<"CREATE", "IN", "PROGRESS">>
CREATE_COMPLETE == <<"CREATE", "COMPLETE">>
CREATE_FAILED == <<"CREATE", "FAILED">>
ROLLBACK_IN_PROGRESS == <<"ROLLBACK", "IN", "PROGRESS">>
ROLLBACK_COMPLETE == <<"ROLLBACK", "COMPLETE">>
ROLLBACK_FAILED == <<"ROLLBACK", "FAILED">>
UPDATE_IN_PROGRESS == <<"UPDATE", "IN", "PROGRESS">>
UPDATE_COMPLETE_CLEANUP_IN_PROGRESS == <<"UPDATE", "COMPLETE", "CLEANUP", "IN", "PROGRESS">>
UPDATE_COMPLETE == <<"UPDATE", "COMPLETE">>
UPDATE_FAILED == <<"UPDATE", "FAILED">>
UPDATE_ROLLBACK_IN_PROGRESS == <<"UPDATE", "ROLLBACK", "IN", "PROGRESS">>
UPDATE_ROLLBACK_COMPLETE_CLEANUP_IN_PROGRESS == <<"UPDATE", "ROLLBACK", "COMPLETE", "CLEANUP", "IN", "PROGRESS">>
UPDATE_ROLLBACK_COMPLETE == <<"UPDATE", "ROLLBACK", "COMPLETE">>
UPDATE_ROLLBACK_FAILED == <<"UPDATE", "ROLLBACK", "FAILED">>

\* the value of stack_status before the first poll
NoStatus == <<>>

\* stack_status.endswith('_COMPLETE')
EndsWithComplete(s) == Len(s) >= 2 /\ s[Len(s)] = "COMPLETE"

\* the list of the elif branch of the polling loop
FailureStatuses == {CREATE_FAILED, UPDATE_ROLLBACK_COMPLETE, UPDATE_ROLLBACK_COMPLETE_CLEANUP_IN_PROGRESS}

\* the list get_stack_events tests event['ResourceStatus'] against
EventErrorStatuses == {CREATE_FAILED, UPDATE_ROLLBACK_COMPLETE, UPDATE_ROLLBACK_COMPLETE_CLEANUP_IN_PROGRESS}

\* time.sleep(5)
SleepInterval == 5

\* Capabilities=['CAPABILITY_NAMED_IAM']
Capabilities == <<"CAPABILITY_NAMED_IAM">>

(***************************************************************************)
(* The provider (CloudFormation), as the driver's calls see it.            *)
(***************************************************************************)
\* --stack-name of the invocation, and another stack of the same account
StackNames == {"my-stack", "other-stack"}
\* template bodies read from customized_template.yaml
Bodies == {"tA", "tB"}

\* statuses in which a stack stays until a new operation is requested
StableStatuses == {CREATE_COMPLETE, UPDATE_COMPLETE, ROLLBACK_COMPLETE, UPDATE_ROLLBACK_COMPLETE}
\* statuses from which the provider accepts update_stack
UpdatableStatuses == {CREATE_COMPLETE, UPDATE_COMPLETE, UPDATE_ROLLBACK_COMPLETE}

\* the provider's own transitions of a stack during an operation
NextStatuses(s) ==
    IF s = CREATE_IN_PROGRESS THEN {CREATE_COMPLETE, CREATE_FAILED, ROLLBACK_IN_PROGRESS}
    ELSE IF s = ROLLBACK_IN_PROGRESS THEN {ROLLBACK_COMPLETE, ROLLBACK_FAILED}
    ELSE IF s = UPDATE_IN_PROGRESS
        THEN {UPDATE_COMPLETE_CLEANUP_IN_PROGRESS, UPDATE_ROLLBACK_IN_PROGRESS, UPDATE_FAILED}
    ELSE IF s = UPDATE_COMPLETE_CLEANUP_IN_PROGRESS THEN {UPDATE_COMPLETE}
    ELSE IF s = UPDATE_ROLLBACK_IN_PROGRESS
        THEN {UPDATE_ROLLBACK_COMPLETE_CLEANUP_IN_PROGRESS, UPDATE_ROLLBACK_FAILED}
    ELSE IF s = UPDATE_ROLLBACK_COMPLETE_CLEANUP_IN_PROGRESS THEN {UPDATE_ROLLBACK_COMPLETE}
    ELSE {}

\* event['ResourceStatusReason']: the phrases of the reason; <<>> when the
\* event has no reason (event.get('ResourceStatusReason', '') is then '')
NoReason == <<>>
Reasons == {NoReason, <<"Resource creation cancelled">>, <<"my-role", "already exists">>}

\* the reasons the provider attaches to the event of a transition to s
ReasonsOf(s) ==
    IF s \in {CREATE_FAILED, ROLLBACK_IN_PROGRESS, UPDATE_ROLLBACK_IN_PROGRESS, UPDATE_FAILED}
    THEN Reasons ELSE {NoReason}

\* a stack event: EventId, Timestamp, ResourceStatus, ResourceStatusReason
Event(i, t, s, r) == [id |-> i, ts |-> t, rstatus |-> s, reason |-> r]

NoStack == [exists |-> FALSE, status |-> NoStatus, events |-> <<>>]

\* a stack in status s with events evs; events are newest first, the order
\* describe_stack_events answers in
StackIn(s, evs) == [exists |-> TRUE, status |-> s, events |-> evs]

(***************************************************************************)
(* Strings, as sequences of characters                                     *)
(***************************************************************************)
\* the placeholder tokens of replace_policy_placeholders
PLACEHOLDER_AUD == <<"p", "l", "a", "c", "e", "h", "o", "l", "d", "e", "r", "_", "a", "u", "d">>
PLACEHOLDER_PROJECT_ID == <<"p", "l", "a", "c", "e", "h", "o", "l", "d", "e", "r", "_", "p", "r", "o", "j", "e", "c", "t", "_", "i", "d">>
PLACEHOLDER_LAUNCHED_BY == <<"p", "l", "a", "c", "e", "h", "o", "l", "d", "e", "r", "_", "l", "a", "u", "n", "c", "h", "e", "d", "_", "b", "y">>
YOUR_BUCKET_NAME == <<"<", "Y", "O", "U", "R", "_", "B", "U", "C", "K", "E", "T", "_", "N", "A", "M", "E", ">">>

Quote == "\""
Backslash == "\\"

\* s[i:].startswith(t)
StartsWithAt(s, i, t) ==
    /\ i + Len(t) - 1 <= Len(s)
    /\ \A k \in 1..Len(t) : s[i + k - 1] = t[k]

\* str.replace(old, new) for a non-empty old: the occurrences of old are
\* found from the left, without overlap, and each becomes new
RECURSIVE ReplaceFrom(_, _, _, _)
ReplaceFrom(s, i, old, new) ==
    IF i > Len(s) THEN <<>>
    ELSE IF StartsWithAt(s, i, old) THEN new \o ReplaceFrom(s, i + Len(old), old, new)
    ELSE <<s[i]>> \o ReplaceFrom(s, i + 1, old, new)

StrReplace(s, old, new) == ReplaceFrom(s, 1, old, new)

(***************************************************************************)
(* json.dumps and json.loads, for the documents of the model: None, and a  *)
(* dict of one string member.  Strings hold no control character, no       *)
(* non-ASCII character and, outside the JSON framing, none of { } : , or   *)
(* white space.                                                            *)
(***************************************************************************)
NonePolicy == [isNone |-> TRUE, key |-> <<>>, value |-> <<>>]
Policy(k, v) == [isNone |-> FALSE, key |-> k, value |-> v]

\* the escapes json.dumps writes: \" and \\
RECURSIVE JsonEscape(_)
JsonEscape(text) ==
    IF text = <<>> THEN <<>>
    ELSE (IF Head(text) \in {Quote, Backslash} THEN <<Backslash, Head(text)>> ELSE <<Head(text)>>)
         \o JsonEscape(Tail(text))

JsonString(text) == <<Quote>> \o JsonEscape(text) \o <<Quote>>

\* json.dumps(policy): 'null', or '{"key": "value"}'
JsonDumps(policy) ==
    IF policy.isNone THEN <<"n", "u", "l", "l">>
    ELSE <<"{">> \o JsonString(policy.key) \o <<":", " ">> \o JsonString(policy.value) \o <<"}">>

HexDigits == {"0", "1", "2", "3", "4", "5", "6", "7", "8", "9",
              "a", "b", "c", "d", "e", "f", "A", "B", "C", "D", "E", "F"}

ScanFailed == [ok |-> FALSE, val |-> <<>>, next |-> 0]

\* the JSON string scanner past the opening quote: the decoded characters up
\* to the closing quote.  \b \f \n \r \t decode to a control character, written
\* here as the two-character name of the escape, \uXXXX to the character "\\u".
RECURSIVE ScanString(_, _, _)
ScanString(s, i, acc) ==
    IF i > Len(s) THEN ScanFailed
    ELSE IF s[i] = Quote THEN [ok |-> TRUE, val |-> acc, next |-> i + 1]
    ELSE IF s[i] = Backslash
    THEN IF i + 1 > Len(s) THEN ScanFailed
         ELSE IF s[i + 1] \in {Quote, Backslash, "/"}
              THEN ScanString(s, i + 2, Append(acc, s[i + 1]))
         ELSE IF s[i + 1] = "b" THEN ScanString(s, i + 2, Append(acc, "\\b"))
         ELSE IF s[i + 1] = "f" THEN ScanString(s, i + 2, Append(acc, "\\f"))
         ELSE IF s[i + 1] = "n" THEN ScanString(s, i + 2, Append(acc, "\\n"))
         ELSE IF s[i + 1] = "r" THEN ScanString(s, i + 2, Append(acc, "\\r"))
         ELSE IF s[i + 1] = "t" THEN ScanString(s, i + 2, Append(acc, "\\t"))
         ELSE IF s[i + 1] = "u" /\ i + 5 <= Len(s) /\ \A k \in 2..5 : s[i + k] \in HexDigits
              THEN ScanString(s, i + 6, Append(acc, "\\u"))
         ELSE ScanFailed
    ELSE ScanString(s, i + 1, Append(acc, s[i]))

\* a JSON string starting at s[i]
ParseString(s, i) ==
    IF i <= Len(s) /\ s[i] = Quote THEN ScanString(s, i + 1, <<>>) ELSE ScanFailed

\* json.loads(s): [ok, policy]; ok is FALSE when json.loads raises JSONDecodeError
JsonLoads(s) ==
    IF s = <<"n", "u", "l", "l">> THEN [ok |-> TRUE, policy |-> NonePolicy]
    ELSE IF Len(s) = 0 \/ s[1] # "{" THEN [ok |-> FALSE, policy |-> NonePolicy]
    ELSE LET k == ParseString(s, 2) IN
         IF ~k.ok \/ ~StartsWithAt(s, k.next, <<":", " ">>) THEN [ok |-> FALSE, policy |-> NonePolicy]
         ELSE LET v == ParseString(s, k.next + 2) IN
              IF v.ok /\ v.next = Len(s) /\ s[v.next] = "}"
              THEN [ok |-> TRUE, policy |-> Policy(k.val, v.val)]
              ELSE [ok |-> FALSE, policy |-> NonePolicy]

(***************************************************************************)
(* replace_policy_placeholders                                             *)
(***************************************************************************)
DataKeys == {"Aud", "ProjectId", "LaunchedBy", "BucketName"}

\* data: for each key whether the dict has it, and its value
Absent == [has |-> FALSE, val |-> <<>>]
Value(v) == [has |-> TRUE, val |-> v]

Returned(policy) == [exc |-> "none", policy |-> policy]
Raised(exc) == [exc |-> exc, policy |-> NonePolicy]

\* the four chained str.replace calls; data[k] raises KeyError for an absent k
ReplacePolicyPlaceholders(policy, data) ==
    LET s0 == JsonDumps(policy) IN
    IF ~data["Aud"].has THEN Raised("KeyError") ELSE
    LET s1 == StrReplace(s0, PLACEHOLDER_AUD, data["Aud"].val) IN
    IF ~data["ProjectId"].has THEN Raised("KeyError") ELSE
    LET s2 == StrReplace(s1, PLACEHOLDER_PROJECT_ID, data["ProjectId"].val) IN
    IF ~data["LaunchedBy"].has THEN Raised("KeyError") ELSE
    LET s3 == StrReplace(s2, PLACEHOLDER_LAUNCHED_BY, data["LaunchedBy"].val) IN
    IF ~data["BucketName"].has THEN Raised("KeyError") ELSE
    LET s4 == StrReplace(s3, YOUR_BUCKET_NAME, data["BucketName"].val)
        parsed == JsonLoads(s4)
    IN  IF parsed.ok THEN Returned(parsed.policy) ELSE Raised("JSONDecodeError")

VARIABLES
    \* ---- provider
    stacks,         \* StackNames -> stack record
    now,            \* the clock, datetime.now(timezone.utc)
    \* ---- arguments of deploy_cloudformation_stack
    stack_name, template_body, update_stack,
    \* ---- locals of deploy_cloudformation_stack
    pc,             \* position in the function
    start_time,     \* the watermark
    createErr,      \* outcome of create_stack: "none", "ok" or the error
    updateErr,      \* outcome of update_stack: "none", "ok" or the error
    stack_status,   \* the status the last poll returned
    result,         \* "none" until the function returns, then "True" or "False"
    \* ---- observations
    calls,          \* the provider calls made, in order
    polled,         \* the statuses the polls returned, in order
    evResponse,     \* response['StackEvents'] of the describe_stack_events call
    log,            \* the events get_stack_events logged, with their level
    slept,          \* total of the time.sleep arguments
    stacks0,        \* the provider's stacks when the invocation began
    \* ---- replace_policy_placeholders
    rp_pc,          \* "call" before the call, "done" after it
    rp_policy,      \* argument policy
    rp_data,        \* argument data
    rp_out,         \* what the call returned or raised
    \* ---- main
    m_script,       \* which script runs: "ocid", "dnanexus" or "create_oidc"
    m_pc,           \* position in main
    m_args,         \* args: json_file (given or not), dry_run, rm_yaml
    m_files,        \* which files exist: json, template, trust, s3, output
    m_data,         \* data
    m_iam,          \* number of get_open_id_connect_provider calls made
    m_written,      \* customized_template.yaml has been written by this run
    m_exc           \* the error main raised, "none" if none

vars == <<stacks, now, stack_name, template_body, update_stack, pc, start_time,
          createErr, updateErr, stack_status, result, calls, polled, evResponse, log,
          slept, stacks0, rp_pc, rp_policy, rp_data, rp_out,
          m_script, m_pc, m_args, m_files, m_data, m_iam, m_written, m_exc>>

driverVars == <<pc, start_time, createErr, updateErr, stack_status, result, calls, polled,
                evResponse, log, slept>>
replaceVars == <<rp_pc, rp_policy, rp_data, rp_out>>
mainVars == <<m_script, m_pc, m_args, m_files, m_data, m_iam, m_written, m_exc>>
\* what no step of deploy_cloudformation_stack, the provider or the clock changes
argVars == <<stack_name, template_body, update_stack, stacks0, replaceVars, mainVars>>

(***************************************************************************)
(* Provider calls                                                          *)
(***************************************************************************)
\* a recorded call: the operation, its keyword arguments, the clock
Call(op, name, body, caps) ==
    [op |-> op, StackName |-> name, TemplateBody |-> body, Capabilities |-> caps, at |-> now]

CallsOf(op) == SelectSeq(calls, LAMBDA c : c.op = op)
NumCalls(op) == Len(CallsOf(op))

\* what client.create_stack can answer for stack st
CreateOutcomes(st) ==
    IF st.exists THEN {"AlreadyExistsException", "ClientError"} ELSE {"ok", "ClientError"}

\* what client.update_stack can answer for stack st
UpdateOutcomes(st) ==
    IF st.exists /\ st.status \in UpdatableStatuses
    THEN {"ok", "ClientError"} ELSE {"ClientError"}

\* what client.describe_stacks / describe_stack_events can answer for stack st
DescribeOutcomes(st) == IF st.exists THEN {"ok", "ClientError"} ELSE {"ClientError"}

\* the stack after an accepted create_stack
Created(t) == StackIn(CREATE_IN_PROGRESS, <<Event(1, t, CREATE_IN_PROGRESS, <<"User Initiated">>)>>)

\* the stack after the provider moved it to status s at time t
Moved(st, s, t, r) ==
    [st EXCEPT !.status = s, !.events = <<Event(Len(st.events) + 1, t, s, r)>> \o st.events]

(***************************************************************************)
(* get_stack_events                                                        *)
(***************************************************************************)
\* 'already exists' in event.get('ResourceStatusReason', '')
ContainsAlreadyExists(reason) == \E i \in 1..Len(reason) : reason[i] = "already exists"

\* mutant: the reason is not looked at
LevelOf_StatusOnly(ev) == IF ev.rstatus \in EventErrorStatuses THEN "error" ELSE "info"

\* the level an event is logged at
LevelOf(ev) ==
    IF ev.rstatus \in EventErrorStatuses \/ ContainsAlreadyExists(ev.reason)
    THEN "error" ELSE "info"

\* event['Timestamp'].replace(tzinfo=timezone.utc): the wall-clock fields are
\* kept and the zone is set to UTC; the provider's timestamps are UTC already
EventTime(ev) == ev.ts

\* mutant: the comparison written '>' instead of '>='
PassesWatermark_Strict(ev, watermark) == EventTime(ev) > watermark

\* if event_time >= start_time
PassesWatermark(ev, watermark) == EventTime(ev) >= watermark

\* the records the loop over response['StackEvents'] logs, in order
RECURSIVE LoggedEvents(_, _)
LoggedEvents(response, watermark) ==
    IF response = <<>> THEN <<>>
    ELSE (IF PassesWatermark(Head(response), watermark)
          THEN <<[level |-> LevelOf(Head(response)), event |-> Head(response)]>>
          ELSE <<>>) \o LoggedEvents(Tail(response), watermark)

(***************************************************************************)
(* deploy_cloudformation_stack                                             *)
(***************************************************************************)
\* start_time = datetime.now(timezone.utc)
RecordStart ==
    /\ pc = "start"
    /\ start_time' = now
    /\ pc' = "create_stack"
    /\ UNCHANGED <<stacks, now, argVars, createErr, updateErr, stack_status, result, calls,
                   polled, evResponse, log, slept>>

\* mutant: the except clause does not test update_stack and always updates
CreateStack_AlwaysUpdate ==
    /\ pc = "create_stack"
    /\ calls' = Append(calls, Call("create_stack", stack_name, template_body, Capabilities))
    /\ \E out \in CreateOutcomes(stacks[stack_name]) :
        /\ createErr' = out
        /\ IF out = "ok"
           THEN /\ stacks' = [stacks EXCEPT ![stack_name] = Created(now)]
                /\ pc' = "poll"
           ELSE /\ stacks' = stacks
                /\ IF out = "AlreadyExistsException"
                   THEN pc' = "update_stack"
                   ELSE pc' = "get_stack_events"
    /\ UNCHANGED <<now, argVars, start_time, updateErr, stack_status, result, polled,
                   evResponse, log, slept>>

\* client.create_stack(...) and the except clause up to the update attempt
CreateStack ==
    /\ pc = "create_stack"
    /\ calls' = Append(calls, Call("create_stack", stack_name, template_body, Capabilities))
    /\ \E out \in CreateOutcomes(stacks[stack_name]) :
        /\ createErr' = out
        /\ IF out = "ok"
           THEN /\ stacks' = [stacks EXCEPT ![stack_name] = Created(now)]
                /\ pc' = "poll"
                /\ result' = result
           ELSE /\ stacks' = stacks
                /\ IF out = "AlreadyExistsException"
                   THEN IF update_stack
                        THEN pc' = "update_stack" /\ result' = result
                        ELSE pc' = "done" /\ result' = "False"
                   ELSE pc' = "get_stack_events" /\ result' = result
    /\ UNCHANGED <<now, argVars, start_time, updateErr, stack_status, polled, evResponse,
                   log, slept>>

\* mutant: the update request leaves out Capabilities
UpdateStack_NoCapabilities ==
    /\ pc = "update_stack"
    /\ calls' = Append(calls, Call("update_stack", stack_name, template_body, <<>>))
    /\ \E out \in UpdateOutcomes(stacks[stack_name]) :
        /\ updateErr' = out
        /\ IF out = "ok"
           THEN /\ stacks' = [stacks EXCEPT ![stack_name] =
                                 Moved(@, UPDATE_IN_PROGRESS, now, <<"User Initiated">>)]
                /\ pc' = "poll"
           ELSE /\ stacks' = stacks
                /\ pc' = "get_stack_events"
    /\ UNCHANGED <<now, argVars, start_time, createErr, stack_status, result, polled,
                   evResponse, log, slept>>

\* mutant: a rejected update is submitted again
UpdateStack_Retry ==
    /\ pc = "update_stack"
    /\ calls' = Append(calls, Call("update_stack", stack_name, template_body, Capabilities))
    /\ \E out \in UpdateOutcomes(stacks[stack_name]) :
        /\ updateErr' = out
        /\ IF out = "ok"
           THEN /\ stacks' = [stacks EXCEPT ![stack_name] =
                                 Moved(@, UPDATE_IN_PROGRESS, now, <<"User Initiated">>)]
                /\ pc' = "poll"
           ELSE /\ stacks' = stacks
                /\ pc' = "update_stack"
    /\ UNCHANGED <<now, argVars, start_time, createErr, stack_status, result, polled,
                   evResponse, log, slept>>

\* mutant: the provider accepts the update and has not yet moved the stack
\* when update_stack returns
UpdateStack_Deferred ==
    /\ pc = "update_stack"
    /\ calls' = Append(calls, Call("update_stack", stack_name, template_body, Capabilities))
    /\ \E out \in UpdateOutcomes(stacks[stack_name]) :
        /\ updateErr' = out
        /\ stacks' = stacks
        /\ pc' = (IF out = "ok" THEN "poll" ELSE "get_stack_events")
    /\ UNCHANGED <<now, argVars, start_time, createErr, stack_status, result, polled,
                   evResponse, log, slept>>

\* client.update_stack(...) of the AlreadyExistsException branch
UpdateStack ==
    /\ pc = "update_stack"
    /\ calls' = Append(calls, Call("update_stack", stack_name, template_body, Capabilities))
    /\ \E out \in UpdateOutcomes(stacks[stack_name]) :
        /\ updateErr' = out
        /\ IF out = "ok"
           THEN /\ stacks' = [stacks EXCEPT ![stack_name] =
                                 Moved(@, UPDATE_IN_PROGRESS, now, <<"User Initiated">>)]
                /\ pc' = "poll"
           ELSE /\ stacks' = stacks
                /\ pc' = "get_stack_events"
    /\ UNCHANGED <<now, argVars, start_time, createErr, stack_status, result, polled,
                   evResponse, log, slept>>

\* mutant: 'if' in place of 'while': one poll, and any status that is not a
\* failure status counts as completion
Poll_NoLoop ==
    /\ pc = "poll"
    /\ NumCalls("describe_stacks") < MaxPolls
    /\ calls' = Append(calls, Call("describe_stacks", stack_name, "", <<>>))
    /\ \E out \in DescribeOutcomes(stacks[stack_name]) :
        IF out = "ok"
        THEN /\ stack_status' = stacks[stack_name].status
             /\ polled' = Append(polled, stack_status')
             /\ IF stack_status' \in FailureStatuses
                THEN pc' = "get_stack_events" /\ result' = result
                ELSE pc' = "done" /\ result' = "True"
        ELSE /\ pc' = "raised"
             /\ UNCHANGED <<stack_status, polled, result>>
    /\ UNCHANGED <<stacks, now, argVars, start_time, createErr, updateErr, evResponse, log,
                   slept>>

\* one iteration of the while loop up to time.sleep: get_stack_status and the tests
Poll ==
    /\ pc = "poll"
    /\ NumCalls("describe_stacks") < MaxPolls
    /\ calls' = Append(calls, Call("describe_stacks", stack_name, "", <<>>))
    /\ \E out \in DescribeOutcomes(stacks[stack_name]) :
        IF out = "ok"
        THEN /\ stack_status' = stacks[stack_name].status
             /\ polled' = Append(polled, stack_status')
             /\ IF EndsWithComplete(stack_status')
                THEN pc' = "done" /\ result' = "True"
                ELSE IF stack_status' \in FailureStatuses
                THEN pc' = "get_stack_events" /\ result' = result
                ELSE pc' = "sleep" /\ result' = result
        ELSE /\ pc' = "raised"
             /\ UNCHANGED <<stack_status, polled, result>>
    /\ UNCHANGED <<stacks, now, argVars, start_time, createErr, updateErr, evResponse, log,
                   slept>>

\* mutant: the pause grows with the number of polls made
Sleep_Backoff ==
    /\ pc = "sleep"
    /\ slept' = slept + SleepInterval * Len(polled)
    /\ pc' = "poll"
    /\ UNCHANGED <<stacks, now, argVars, start_time, createErr, updateErr, stack_status,
                   result, calls, polled, evResponse, log>>

\* time.sleep(5)
Sleep ==
    /\ pc = "sleep"
    /\ slept' = slept + SleepInterval
    /\ pc' = "poll"
    /\ UNCHANGED <<stacks, now, argVars, start_time, createErr, updateErr, stack_status,
                   result, calls, polled, evResponse, log>>

\* get_stack_events(client, stack_name, start_time); return False
GetStackEvents ==
    /\ pc = "get_stack_events"
    /\ calls' = Append(calls, Call("describe_stack_events", stack_name, "", <<>>))
    /\ \E out \in DescribeOutcomes(stacks[stack_name]) :
        IF out = "ok"
        THEN /\ evResponse' = stacks[stack_name].events
             /\ log' = LoggedEvents(evResponse', start_time)
             /\ result' = "False"
             /\ pc' = "done"
        ELSE /\ pc' = "raised"
             /\ UNCHANGED <<evResponse, log, result>>
    /\ UNCHANGED <<stacks, now, argVars, start_time, createErr, updateErr, stack_status,
                   polled, slept>>

(***************************************************************************)
(* The environment: the provider working on a stack, and the clock         *)
(***************************************************************************)
ProviderStep ==
    /\ \E n \in StackNames :
        /\ stacks[n].exists
        /\ \E s \in NextStatuses(stacks[n].status) : \E r \in ReasonsOf(s) :
              stacks' = [stacks EXCEPT ![n] = Moved(@, s, now, r)]
    /\ UNCHANGED <<now, argVars, driverVars>>

Tick ==
    /\ now < MaxTime
    /\ now' = now + 1
    /\ UNCHANGED <<stacks, argVars, driverVars>>

(***************************************************************************)
(* Specification of one invocation of deploy_cloudformation_stack          *)
(***************************************************************************)
\* the stacks the account can hold when the script starts, at time t
InitialStacks(t) ==
    {StackIn(s, <<Event(1, u, s, NoReason)>>) : s \in StableStatuses, u \in 0..t} \cup {NoStack}

\* a stack of another name, created before the script starts
OtherStack == StackIn(CREATE_COMPLETE, <<Event(1, 0, CREATE_COMPLETE, NoReason)>>)

\* replace_policy_placeholders is not running
ReplaceIdle ==
    /\ rp_pc = "idle"
    /\ rp_policy = NonePolicy
    /\ rp_data = [k \in DataKeys |-> Absent]
    /\ rp_out = Raised("none")

\* the keys main reads from data
MainDataKeys == DataKeys \cup {"Url", "ClientIdList"}

\* main is not running
MainIdle ==
    /\ m_script = "none"
    /\ m_pc = "idle"
    /\ m_args = [json_file |-> FALSE, dry_run |-> FALSE, rm_yaml |-> TRUE]
    /\ m_files = [json |-> FALSE, template |-> FALSE, trust |-> FALSE, s3 |-> FALSE, output |-> FALSE]
    /\ m_data = [k \in MainDataKeys |-> Absent]
    /\ m_iam = 0
    /\ m_written = FALSE
    /\ m_exc = "none"

Init ==
    /\ ReplaceIdle
    /\ MainIdle
    /\ now = 1
    /\ stack_name = "my-stack"
    /\ template_body \in Bodies
    /\ update_stack \in BOOLEAN
    /\ \E st \in InitialStacks(now) :
          stacks = [n \in StackNames |-> IF n = stack_name THEN st ELSE OtherStack]
    /\ stacks0 = stacks
    /\ pc = "start"
    /\ start_time = 0
    /\ createErr = "none"
    /\ updateErr = "none"
    /\ stack_status = NoStatus
    /\ result = "none"
    /\ calls = <<>>
    /\ polled = <<>>
    /\ evResponse = <<>>
    /\ log = <<>>
    /\ slept = 0

Next ==
    \/ RecordStart
    \/ CreateStack
    \/ UpdateStack
    \/ Poll
    \/ Sleep
    \/ GetStackEvents
    \/ ProviderStep
    \/ Tick

Spec == Init /\ [][Next]_vars

(***************************************************************************)
(* Specification of one call of replace_policy_placeholders                *)
(***************************************************************************)
\* a policy text is made of at most MaxSegments pieces
MaxSegments == 2

\* the pieces: the tokens, halves of a token, plain text, a quoted word
Segments == {PLACEHOLDER_AUD, PLACEHOLDER_PROJECT_ID, PLACEHOLDER_LAUNCHED_BY, YOUR_BUCKET_NAME,
             <<"x">>, <<"\"", "q", "\"">>, <<"p", "l", "a", "c", "e", "h", "o", "l", "d", "e", "r", "_">>, <<"p", "r", "o", "j", "e", "c", "t", "_", "i", "d">>}

\* the values a data key can have
Values == {<<"v">>, <<"p", "l", "a", "c", "e", "h", "o", "l", "d", "e", "r", "_", "p", "r", "o", "j", "e", "c", "t", "_", "i", "d">>, <<"a", "\"", "b">>, <<>>}

RECURSIVE Texts(_)
Texts(n) == IF n = 0 THEN {<<>>} ELSE Texts(n - 1) \cup {t \o g : t \in Texts(n - 1), g \in Segments}

\* deploy_cloudformation_stack is not running
DriverIdle ==
    /\ now = 0
    /\ stack_name = "my-stack"
    /\ template_body = "tA"
    /\ update_stack = FALSE
    /\ stacks = [n \in StackNames |-> NoStack]
    /\ stacks0 = stacks
    /\ pc = "idle"
    /\ start_time = 0
    /\ createErr = "none"
    /\ updateErr = "none"
    /\ stack_status = NoStatus
    /\ result = "none"
    /\ calls = <<>>
    /\ polled = <<>>
    /\ evResponse = <<>>
    /\ log = <<>>
    /\ slept = 0

InitReplace ==
    /\ DriverIdle
    /\ MainIdle
    /\ rp_pc = "call"
    /\ rp_policy \in {Policy(<<"R", "e", "s", "o", "u", "r", "c", "e">>, t) : t \in Texts(MaxSegments)}
    /\ rp_data \in [DataKeys -> {Absent} \cup {Value(v) : v \in Values}]
    /\ rp_out = Raised("none")

\* policy = replace_policy_placeholders(policy, data)
CallReplace ==
    /\ rp_pc = "call"
    /\ rp_out' = ReplacePolicyPlaceholders(rp_policy, rp_data)
    /\ rp_pc' = "done"
    /\ UNCHANGED <<rp_policy, rp_data, stacks, now, stack_name, template_body, update_stack,
                   stacks0, driverVars, mainVars>>

NextReplace == CallReplace

ReplaceSpec == InitReplace /\ [][NextReplace]_vars

(***************************************************************************)
(* main of the three scripts                                               *)
(***************************************************************************)
Scripts == {"ocid", "dnanexus", "create_oidc"}
\* the scripts that load the trust policy and the S3 policy
PolicyScripts == {"dnanexus", "create_oidc"}

\* the policy files, when they exist
TrustPolicyFile == Policy(<<"R", "e", "s", "o", "u", "r", "c", "e">>, PLACEHOLDER_AUD \o <<":">> \o PLACEHOLDER_PROJECT_ID \o <<":">> \o PLACEHOLDER_LAUNCHED_BY)
S3PolicyFile == Policy(<<"R", "e", "s", "o", "u", "r", "c", "e">>, YOUR_BUCKET_NAME)

MainRaise(exc) ==
    /\ m_pc' = "raised"
    /\ m_exc' = exc

\* if args.json_file: ... raise FileNotFoundError / get_input_from_json; else get_user_input
MainLoadJson ==
    /\ m_pc = "json"
    /\ IF m_args.json_file /\ ~m_files.json
       THEN MainRaise("FileNotFoundError")
       ELSE /\ m_pc' = (IF m_script = "dnanexus" THEN "fetch_aud" ELSE "template")
            /\ m_exc' = m_exc
    /\ UNCHANGED <<m_script, m_args, m_files, m_data, m_iam, m_written, replaceVars,
                   stacks, now, stack_name, template_body, update_stack, stacks0, driverVars>>

\* data['Aud'] = fetch_aud_from_oidc(args.oidc_arn, args.profile)
MainFetchAud ==
    /\ m_pc = "fetch_aud"
    /\ m_iam' = m_iam + 1
    /\ \E out \in {"ok", "ClientError"} :
        IF out = "ok"
        THEN /\ m_data' = [m_data EXCEPT !["Aud"] = Value(<<"v">>)]
             /\ m_pc' = "template"
             /\ m_exc' = m_exc
        ELSE /\ MainRaise("ClientError")
             /\ m_data' = m_data
    /\ UNCHANGED <<m_script, m_args, m_files, m_written, replaceVars,
                   stacks, now, stack_name, template_body, update_stack, stacks0, driverVars>>

\* template = load_yaml_from_file(args.template_file); if template is None: raise ...
MainLoadTemplate ==
    /\ m_pc = "template"
    /\ IF ~m_files.template
       THEN MainRaise(IF m_script = "ocid" THEN "FileNotFoundError" ELSE "RuntimeError")
       ELSE /\ m_pc' = "build"
            /\ m_exc' = m_exc
    /\ UNCHANGED <<m_script, m_args, m_files, m_data, m_iam, m_written, replaceVars,
                   stacks, now, stack_name, template_body, update_stack, stacks0, driverVars>>

\* load_yaml_from_file of a policy file: None when the file does not exist
LoadPolicy(exists, content) == IF exists THEN content ELSE NonePolicy

\* the error the statements between the template check and save_template_to_file
\* raise, "none" if none: the two replace_policy_placeholders calls,
\* customize_template, add_dnanexus_role, assign_resource_names
BuildError(script, files, data) ==
    LET trust == ReplacePolicyPlaceholders(LoadPolicy(files.trust, TrustPolicyFile), data)
        s3 == ReplacePolicyPlaceholders(LoadPolicy(files.s3, S3PolicyFile), data)
        customize == IF script = "dnanexus" \/ (data["Url"].has /\ data["ClientIdList"].has)
                     THEN "none" ELSE "KeyError"
    IN  IF script = "ocid" THEN customize
        ELSE IF trust.exc # "none" THEN trust.exc
        ELSE IF s3.exc # "none" THEN s3.exc
        ELSE IF customize # "none" THEN customize
        ELSE IF trust.policy.isNone \/ s3.policy.isNone THEN "ValueError"
        ELSE "none"

MainBuild ==
    /\ m_pc = "build"
    /\ IF BuildError(m_script, m_files, m_data) # "none"
       THEN MainRaise(BuildError(m_script, m_files, m_data))
       ELSE /\ m_pc' = "save"
            /\ m_exc' = m_exc
    /\ UNCHANGED <<m_script, m_args, m_files, m_data, m_iam, m_written, replaceVars,
                   stacks, now, stack_name, template_body, update_stack, stacks0, driverVars>>

\* save_template_to_file(template, 'customized_template.yaml')
MainSave ==
    /\ m_pc = "save"
    /\ m_files' = [m_files EXCEPT !.output = TRUE]
    /\ m_written' = TRUE
    /\ m_pc' = "dispatch"
    /\ UNCHANGED <<m_script, m_args, m_data, m_iam, m_exc, replaceVars,
                   stacks, now, stack_name, template_body, update_stack, stacks0, driverVars>>

\* if args.dry_run: print the generated template
MainDryRun ==
    /\ m_pc = "dispatch"
    /\ m_args.dry_run
    /\ m_pc' = "exit"
    /\ UNCHANGED <<m_script, m_args, m_files, m_data, m_iam, m_written, m_exc, replaceVars,
                   stacks, now, stack_name, template_body, update_stack, stacks0, driverVars>>

\* success = deploy_cloudformation_stack(output_file, stack_name, profile, update_stack)
\* of the deploy-*-stack scripts: the call
MainCallDeploy ==
    /\ m_pc = "dispatch"
    /\ ~m_args.dry_run
    /\ m_script \in {"ocid", "dnanexus"}
    /\ m_pc' = "deploy"
    /\ pc' = "start"
    /\ stacks0' = stacks
    /\ UNCHANGED <<m_script, m_args, m_files, m_data, m_iam, m_written, m_exc, replaceVars,
                   stacks, now, stack_name, template_body, update_stack, start_time,
                   createErr, updateErr, stack_status, result, calls, polled, evResponse,
                   log, slept>>

\* mutant: an AlreadyExistsException is not taken as a failure
DeployCreateOnly_ExistsIsSuccess ==
    /\ m_pc = "dispatch"
    /\ ~m_args.dry_run
    /\ m_script = "create_oidc"
    /\ m_pc' = "deploy"
    /\ stacks0' = stacks
    /\ calls' = Append(calls, Call("create_stack", stack_name, template_body, Capabilities))
    /\ \E out \in CreateOutcomes(stacks[stack_name]) :
        /\ createErr' = out
        /\ IF out = "ok"
           THEN stacks' = [stacks EXCEPT ![stack_name] = Created(now)] /\ result' = "True"
           ELSE /\ stacks' = stacks
                /\ result' = (IF out = "AlreadyExistsException" THEN "True" ELSE "False")
    /\ pc' = "done"
    /\ UNCHANGED <<m_script, m_args, m_files, m_data, m_iam, m_written, m_exc, replaceVars,
                   now, stack_name, template_body, update_stack, start_time, updateErr,
                   stack_status, polled, evResponse, log, slept>>

\* deploy_cloudformation_stack of create_oidc_provider.py: one create_stack
\* call, True when it is accepted and False on a ClientError
DeployCreateOnly ==
    /\ m_pc = "dispatch"
    /\ ~m_args.dry_run
    /\ m_script = "create_oidc"
    /\ m_pc' = "deploy"
    /\ stacks0' = stacks
    /\ calls' = Append(calls, Call("create_stack", stack_name, template_body, Capabilities))
    /\ \E out \in CreateOutcomes(stacks[stack_name]) :
        /\ createErr' = out
        /\ IF out = "ok"
           THEN stacks' = [stacks EXCEPT ![stack_name] = Created(now)] /\ result' = "True"
           ELSE stacks' = stacks /\ result' = "False"
    /\ pc' = "done"
    /\ UNCHANGED <<m_script, m_args, m_files, m_data, m_iam, m_written, m_exc, replaceVars,
                   now, stack_name, template_body, update_stack, start_time, updateErr,
                   stack_status, polled, evResponse, log, slept>>

\* after deploy_cloudformation_stack returned: if args.rm_yaml: os.remove(output_file)
MainAfterDeploy ==
    /\ m_pc = "deploy"
    /\ pc = "done"
    /\ m_files' = [m_files EXCEPT !.output = IF m_args.rm_yaml THEN FALSE ELSE @]
    /\ m_pc' = "exit"
    /\ UNCHANGED <<m_script, m_args, m_data, m_iam, m_written, m_exc, replaceVars,
                   stacks, now, stack_name, template_body, update_stack, stacks0, driverVars>>

\* an exception of deploy_cloudformation_stack leaves main
MainDeployRaised ==
    /\ m_pc = "deploy"
    /\ pc = "raised"
    /\ MainRaise("ClientError")
    /\ UNCHANGED <<m_script, m_args, m_files, m_data, m_iam, m_written, replaceVars,
                   stacks, now, stack_name, template_body, update_stack, stacks0, driverVars>>

(***************************************************************************)
(* Specification of one run of a script                                    *)
(***************************************************************************)
\* data with a value for each key of has
DataWith(has) == [k \in MainDataKeys |-> IF k \in has THEN Value(<<"v">>) ELSE Absent]

\* what get_user_input of a script returns
UserInputKeys(script) ==
    IF script = "ocid" THEN {"Url", "ClientIdList"}
    ELSE IF script = "dnanexus" THEN {"ProjectId", "LaunchedBy", "BucketName"}
    ELSE MainDataKeys

\* the key sets of the JSON files of the model: everything, or one key missing
JsonKeySets == {MainDataKeys, MainDataKeys \ {"BucketName"}, MainDataKeys \ {"Url"}}

InitMain ==
    /\ ReplaceIdle
    /\ m_script \in Scripts
    /\ m_pc = "json"
    /\ m_args \in [json_file : BOOLEAN, dry_run : BOOLEAN, rm_yaml : BOOLEAN]
    /\ m_files \in [json : BOOLEAN, template : BOOLEAN, trust : BOOLEAN, s3 : BOOLEAN,
                    output : {FALSE}]
    /\ m_args.json_file \/ ~m_files.json
    /\ m_script \in PolicyScripts \/ (m_files.trust /\ m_files.s3)
    /\ m_data \in (IF m_args.json_file /\ m_files.json
                   THEN {DataWith(h) : h \in JsonKeySets}
                   ELSE {DataWith(UserInputKeys(m_script))})
    /\ m_iam = 0
    /\ m_written = FALSE
    /\ m_exc = "none"
    /\ now = 1
    /\ stack_name = "my-stack"
    /\ template_body = "tA"
    /\ update_stack \in (IF m_script = "create_oidc" THEN {FALSE} ELSE BOOLEAN)
    /\ \E st \in {NoStack, OtherStack} :
          stacks = [n \in StackNames |-> IF n = stack_name THEN st ELSE NoStack]
    /\ stacks0 = stacks
    /\ pc = "idle"
    /\ start_time = 0
    /\ createErr = "none"
    /\ updateErr = "none"
    /\ stack_status = NoStatus
    /\ result = "none"
    /\ calls = <<>>
    /\ polled = <<>>
    /\ evResponse = <<>>
    /\ log = <<>>
    /\ slept = 0

NextMain ==
    \/ MainLoadJson
    \/ MainFetchAud
    \/ MainLoadTemplate
    \/ MainBuild
    \/ MainSave
    \/ MainDryRun
    \/ MainCallDeploy
    \/ DeployCreateOnly
    \/ MainAfterDeploy
    \/ MainDeployRaised
    \/ RecordStart
    \/ CreateStack
    \/ UpdateStack
    \/ Poll
    \/ Sleep
    \/ GetStackEvents
    \/ ProviderStep
    \/ Tick

MainSpec == InitMain /\ [][NextMain]_vars

(***************************************************************************)
(* Properties of main                                                      *)
(***************************************************************************)
\* an input file main needs does not exist
InputError ==
    \/ m_args.json_file /\ ~m_files.json
    \/ ~m_files.template
    \/ m_script \in PolicyScripts /\ (~m_files.trust \/ ~m_files.s3)

\* C10: when an input file is missing, main makes no provider call and does
\* not write customized_template.yaml, and it ends by raising an error.
C10_InputErrorsAbortFirst ==
    (m_pc # "idle" /\ InputError) =>
        /\ m_iam = 0
        /\ calls = <<>>
        /\ ~m_written
        /\ m_pc \notin {"save", "dispatch", "deploy", "exit"}

\* deploy_cloudformation_stack of create_oidc_provider.py has returned
CreateOnlyReturned ==
    m_script = "create_oidc" /\ ~m_args.dry_run /\ m_pc \in {"deploy", "exit"}

\* C11: deploy_cloudformation_stack of create_oidc_provider.py has made one
\* create_stack call and no other provider call; it returned True exactly when
\* create_stack was accepted and False on any ClientError, already-exists
\* included; the result stays whatever status the stack takes later.
C11_CreateOnlyResult ==
    /\ m_script = "create_oidc" => NumCalls("create_stack") <= 1
    /\ CreateOnlyReturned =>
        /\ Len(calls) = 1 /\ calls[1].op = "create_stack"
        /\ polled = <<>> /\ evResponse = <<>>
        /\ pc = "done"
        /\ result = "True" <=> createErr = "ok"
        /\ createErr \in {"AlreadyExistsException", "ClientError"} => result = "False"
        /\ result \in {"True", "False"}

\* C11 witness: True was returned and the stack later rolled back
C11_Witness ==
    /\ CreateOnlyReturned
    /\ result = "True"
    /\ stacks[stack_name].status = ROLLBACK_COMPLETE

(***************************************************************************)
(* Properties of replace_policy_placeholders                               *)
(***************************************************************************)
\* the token that starts at text[i], or <<>>
TokenAt(text, i) ==
    IF StartsWithAt(text, i, PLACEHOLDER_AUD) THEN "Aud"
    ELSE IF StartsWithAt(text, i, PLACEHOLDER_PROJECT_ID) THEN "ProjectId"
    ELSE IF StartsWithAt(text, i, PLACEHOLDER_LAUNCHED_BY) THEN "LaunchedBy"
    ELSE IF StartsWithAt(text, i, YOUR_BUCKET_NAME) THEN "BucketName"
    ELSE "none"

TokenOf(k) ==
    IF k = "Aud" THEN PLACEHOLDER_AUD
    ELSE IF k = "ProjectId" THEN PLACEHOLDER_PROJECT_ID
    ELSE IF k = "LaunchedBy" THEN PLACEHOLDER_LAUNCHED_BY
    ELSE YOUR_BUCKET_NAME

\* text with each token occurrence of the input become its own value, and
\* every other character kept
RECURSIVE SubstituteFrom(_, _, _)
SubstituteFrom(text, i, data) ==
    IF i > Len(text) THEN <<>>
    ELSE IF TokenAt(text, i) # "none"
    THEN data[TokenAt(text, i)].val \o SubstituteFrom(text, i + Len(TokenOf(TokenAt(text, i))), data)
    ELSE <<text[i]>> \o SubstituteFrom(text, i + 1, data)

\* C9: with the four values supplied, replace_policy_placeholders returns the
\* policy with every token occurrence of the input replaced by its own value
\* and all other text unchanged; with a value absent it raises an error.
C9_EveryTokenItsOwnValue ==
    rp_pc = "done" =>
        IF \A k \in DataKeys : rp_data[k].has
        THEN rp_out = Returned(Policy(SubstituteFrom(rp_policy.key, 1, rp_data),
                                      SubstituteFrom(rp_policy.value, 1, rp_data)))
        ELSE rp_out.exc # "none"

(***************************************************************************)
(* Properties of deploy_cloudformation_stack                               *)
(***************************************************************************)
LastOf(seq) == seq[Len(seq)]
Range(seq) == {seq[i] : i \in 1..Len(seq)}

\* the '_COMPLETE' statuses that end a rolled-back operation
RollbackStatuses == {ROLLBACK_COMPLETE, UPDATE_ROLLBACK_COMPLETE}

\* C1: once a polled status is in the known-failure set the driver stops
\* polling and does not return True (it returns False).
C1_FailureStatusEndsInFalse ==
    stack_status \in FailureStatuses => pc \notin {"poll", "sleep"} /\ result # "True"

\* C2: a True result implies that the last polled status ends in '_COMPLETE'
\* and is not a rollback status.
C2_TrueOnlyOnSuccess ==
    result = "True" =>
        /\ polled # <<>>
        /\ EndsWithComplete(LastOf(polled))
        /\ LastOf(polled) \notin RollbackStatuses

\* C3: after an accepted create_stack, exactly one create_stack and no
\* update_stack call has been made; the driver returns True only after a
\* '_COMPLETE' status was polled; it has returned True once CREATE_COMPLETE was
\* polled; and as long as every poll answered CREATE_IN_PROGRESS or
\* CREATE_COMPLETE it has not returned False.
C3_CreateThenComplete ==
    createErr = "ok" =>
        /\ ~stacks0[stack_name].exists
        /\ NumCalls("create_stack") = 1
        /\ NumCalls("update_stack") = 0
        /\ result = "True" => polled # <<>> /\ EndsWithComplete(LastOf(polled))
        /\ (polled # <<>> /\ LastOf(polled) = CREATE_COMPLETE) => pc = "done" /\ result = "True"
        /\ result = "False" => ~(Range(polled) \subseteq {CREATE_IN_PROGRESS, CREATE_COMPLETE})

\* C3 witness: create accepted, CREATE_IN_PROGRESS polled, then CREATE_COMPLETE, True.
C3_Witness ==
    /\ createErr = "ok"
    /\ result = "True"
    /\ polled = <<CREATE_IN_PROGRESS, CREATE_COMPLETE>>

\* C4: create_stack rejected as already existing without the update flag: the
\* driver has returned False, made no update_stack, describe_stacks or
\* describe_stack_events call, and the provider's stacks are as they were.
C4_ExistsNoUpdateFlag ==
    (createErr = "AlreadyExistsException" /\ ~update_stack) =>
        /\ pc = "done"
        /\ result = "False"
        /\ NumCalls("update_stack") = 0
        /\ NumCalls("describe_stacks") = 0
        /\ NumCalls("describe_stack_events") = 0
        /\ stacks = stacks0

\* C4 witness
C4_Witness ==
    /\ createErr = "AlreadyExistsException"
    /\ ~update_stack
    /\ pc = "done"
    /\ stacks0[stack_name].status = UPDATE_COMPLETE

\* the update request has been issued on the create-to-update fallback
UpdatePathTaken ==
    createErr = "AlreadyExistsException" /\ update_stack /\ pc # "update_stack"

\* the statuses the stack of the invocation has entered since the invocation began
StatusesSinceStart ==
    {e.rstatus : e \in {x \in Range(stacks[stack_name].events) :
                            x.id > Len(stacks0[stack_name].events)}}

\* C5: on the fallback exactly one update_stack request is issued, with the
\* stack name, template body and capabilities of the create request; every
\* poll comes after it, asks for the same stack, and, when the update was
\* accepted, returns a status the stack entered through that update.
C5_UpdateInsteadOfCreate ==
    UpdatePathTaken =>
        /\ NumCalls("update_stack") = 1
        /\ LET c == CallsOf("create_stack")[1]
               u == CallsOf("update_stack")[1]
           IN  /\ u.StackName = c.StackName
               /\ u.TemplateBody = c.TemplateBody
               /\ u.Capabilities = c.Capabilities
               /\ \A i \in 1..Len(calls) :
                    calls[i].op = "describe_stacks" =>
                        /\ calls[i].StackName = u.StackName
                        /\ \E j \in 1..(i - 1) : calls[j].op = "update_stack"
        /\ updateErr = "ok" => Range(polled) \subseteq StatusesSinceStart
        /\ updateErr # "ok" => polled = <<>>

\* C5 witness: the update was accepted and polled to UPDATE_COMPLETE
C5_Witness ==
    /\ UpdatePathTaken
    /\ updateErr = "ok"
    /\ result = "True"
    /\ polled = <<UPDATE_IN_PROGRESS, UPDATE_COMPLETE>>

\* the create_stack and update_stack calls made, in order
Submissions == SelectSeq(calls, LAMBDA c : c.op \in {"create_stack", "update_stack"})

\* C6: create_stack is called exactly once; update_stack at most once, after a
\* create_stack that failed as already existing, with the update flag set;
\* after a failed submission no create_stack or update_stack follows.
C6_NoRetries ==
    /\ NumCalls("create_stack") = (IF pc \in {"start", "create_stack"} THEN 0 ELSE 1)
    /\ NumCalls("update_stack") <= 1
    /\ NumCalls("update_stack") = 1 =>
          /\ createErr = "AlreadyExistsException"
          /\ update_stack
          /\ Submissions[1].op = "create_stack" /\ Submissions[2].op = "update_stack"
    /\ (createErr = "ClientError" \/ (createErr = "AlreadyExistsException" /\ ~update_stack)) =>
          Len(Submissions) = 1
    /\ updateErr = "ClientError" => Len(Submissions) = 2 /\ pc # "update_stack"

\* C6 witness: the update was rejected and the driver has returned
C6_Witness ==
    /\ updateErr = "ClientError"
    /\ pc = "done"
    /\ result = "False"

\* C7: the driver never terminates with an uncaught exception: every provider
\* error ends in a return.
C7_NoUncaughtException == pc # "raised"

\* the get_stack_events call has been answered and the driver has returned
EventsLogged == pc = "done" /\ NumCalls("describe_stack_events") = 1

\* C8: get_stack_events runs at most once in an invocation; every event of
\* its response timestamped at or after start_time is logged exactly once, no
\* event timestamped before it is logged, nothing else is logged, and
\* start_time was recorded no later than the create request.
C8_WatermarkFilter ==
    /\ NumCalls("describe_stack_events") <= 1
    /\ EventsLogged =>
        /\ \A e \in Range(evResponse) :
              Cardinality({j \in 1..Len(log) : log[j].event = e}) =
                  (IF e.ts >= start_time THEN 1 ELSE 0)
        /\ \A j \in 1..Len(log) : log[j].event \in Range(evResponse)
        /\ start_time <= CallsOf("create_stack")[1].at

\* C8 witness: the response holds an event before, one at and one after the watermark
C8_Witness ==
    /\ EventsLogged
    /\ \E e \in Range(evResponse) : e.ts < start_time
    /\ \E e \in Range(evResponse) : e.ts = start_time
    /\ \E e \in Range(evResponse) : e.ts > start_time

\* the statuses after which the provider makes no further transition
TerminalStatuses ==
    {CREATE_COMPLETE, CREATE_FAILED, ROLLBACK_COMPLETE, ROLLBACK_FAILED, UPDATE_COMPLETE,
     UPDATE_FAILED, UPDATE_ROLLBACK_COMPLETE, UPDATE_ROLLBACK_FAILED}

\* C12: a poll that reads a terminal status ends the loop, so the driver never
\* goes to sleep on a terminal status (were it to, every later poll would read
\* the same status and sleep again, and the driver would never return).
C12_TerminalStatusEndsLoop == pc = "sleep" => stack_status \notin TerminalStatuses


\* a polled status on which the loop goes on
ContinueStatus(s) == ~EndsWithComplete(s) /\ s \notin FailureStatuses

\* every status polled so far lets the loop go on
AllContinue == \A i \in 1..Len(polled) : ContinueStatus(polled[i])

\* C13: while every polled status neither ends in '_COMPLETE' nor is a
\* known-failure status the driver has not returned and is sleeping or about to
\* poll again; the time slept is one interval per poll that did not end the
\* loop: none before the first poll, one after each poll that goes on, none
\* after the poll that ends the loop.
C13_OneSleepPerPoll ==
    /\ (polled # <<>> /\ AllContinue) =>
        /\ result = "none"
        /\ pc \in {"sleep", "poll", "raised"}
    /\ polled = <<>> => slept = 0
    /\ (polled # <<>> /\ pc = "sleep") =>
        /\ AllContinue
        /\ slept = SleepInterval * (Len(polled) - 1)
    /\ (polled # <<>> /\ pc = "poll") =>
        /\ AllContinue
        /\ slept = SleepInterval * Len(polled)
    /\ (polled # <<>> /\ pc \in {"done", "get_stack_events"}) =>
        /\ ~ContinueStatus(LastOf(polled))
        /\ \A i \in 1..(Len(polled) - 1) : ContinueStatus(polled[i])
        /\ slept = SleepInterval * (Len(polled) - 1)

\* C13 witness: two polls went on, two sleeps were made, a third poll is due
C13_Witness ==
    /\ Len(polled) = 2
    /\ AllContinue
    /\ pc = "poll"
    /\ slept = 2 * SleepInterval


\* create_stack failed other than by already-exists, or update_stack failed
SubmissionFailed == createErr = "ClientError" \/ updateErr = "ClientError"

\* C14: after a failed submission the driver never polls describe_stacks; it
\* calls describe_stack_events once, logs the events at or after start_time and
\* returns False.
C14_SubmissionFailureEndsInFalse ==
    SubmissionFailed =>
        /\ pc \in {"get_stack_events", "done"}
        /\ NumCalls("describe_stacks") = 0
        /\ NumCalls("describe_stack_events") = (IF pc = "done" THEN 1 ELSE 0)
        /\ pc = "done" =>
            /\ result = "False"
            /\ log = LoggedEvents(evResponse, start_time)


\* the event's status is one of the three the claim names
NamedErrorStatus(e) ==
    e.rstatus \in {CREATE_FAILED, UPDATE_ROLLBACK_COMPLETE,
                   UPDATE_ROLLBACK_COMPLETE_CLEANUP_IN_PROGRESS}

\* the event's reason holds the phrase 'already exists'
ReasonSaysExists(e) == \E i \in 1..Len(e.reason) : e.reason[i] = "already exists"

\* C15: every logged event is logged at error level if and only if its status
\* is CREATE_FAILED, UPDATE_ROLLBACK_COMPLETE or
\* UPDATE_ROLLBACK_COMPLETE_CLEANUP_IN_PROGRESS or its reason contains
\* 'already exists', and at info level otherwise; an event without a reason
\* is judged by its status alone.
C15_EventLevels ==
    EventsLogged =>
        \A j \in 1..Len(log) :
            /\ log[j].level \in {"error", "info"}
            /\ log[j].level = "error" <=>
                   (NamedErrorStatus(log[j].event) \/ ReasonSaysExists(log[j].event))
            /\ log[j].event.reason = NoReason =>
                   (log[j].level = "error" <=> NamedErrorStatus(log[j].event))

\* C15 witness: the log holds an error entry by reason alone, an error entry
\* by status alone and an info entry that has a reason
C15_Witness ==
    /\ EventsLogged
    /\ \E j \in 1..Len(log) :
          /\ log[j].level = "error"
          /\ ~NamedErrorStatus(log[j].event)
          /\ ReasonSaysExists(log[j].event)
    /\ \E j \in 1..Len(log) :
          /\ log[j].level = "error"
          /\ NamedErrorStatus(log[j].event)
          /\ log[j].event.reason = NoReason
    /\ \E j \in 1..Len(log) :
          /\ log[j].level = "info"
          /\ log[j].event.reason # NoReason


\* the events by which the stack entered UPDATE_IN_PROGRESS in this invocation
UpdateEvents ==
    {e \in Range(stacks[stack_name].events) :
        /\ e.rstatus = UPDATE_IN_PROGRESS
        /\ e.id > Len(stacks0[stack_name].events)}

MainEnded == m_pc \in {"exit", "raised"}

\* C17: a run of main that wrote customized_template.yaml, was not a dry run
\* and had rm_yaml set has removed the file when it ends, however the
\* deployment went; a dry run makes no create_stack or update_stack call and
\* leaves the file on disk.
C17_GeneratedFileRemoved ==
    /\ (MainEnded /\ m_written /\ ~m_args.dry_run /\ m_args.rm_yaml) => ~m_files.output
    /\ (m_script # "none" /\ m_args.dry_run) =>
        /\ NumCalls("create_stack") = 0
        /\ NumCalls("update_stack") = 0
        /\ (m_pc = "exit" => m_files.output)

====
